---------------------------- MODULE Spec2Model ----------------------------
(***************************************************************************)
(* Electoral-data PDF parser: PDFParser (pdf_parser.py) and main (main.py). *)
(* Text is a sequence of one-character strings, so that the regular         *)
(* expressions of extract_data_from_text are matched character by           *)
(* character with Python's backtracking priorities.                         *)
(***************************************************************************)
EXTENDS Integers, Sequences, FiniteSets, TLC

(***************************************************************************)
(* The state of a run.                                                       *)
(***************************************************************************)
VARIABLES
    project_id,      \* config.PROJECT_ID
    processor_id,    \* config.PROCESSOR_ID
    output_folder,   \* config.OUTPUT_FOLDER
    dirs,            \* the directories that exist
    files,           \* the files that exist: path |-> content
    entry,           \* "main": main() runs; "library": a caller drives PDFParser itself
    pc,              \* the position of the run
    exit_code,       \* "running", then "exit 0" or "exit 1" of main, "returned" or
                     \* "raised" for a library caller
    client,          \* PDFParser.client
    processor_name,  \* PDFParser.processor_name
    pdf_files,       \* the matching file names, in enumeration order
    idx,             \* the position of the loop of process_all_pdfs in pdf_files
    all_data,        \* the records appended so far
    extracted_data,  \* what process_all_pdfs returned
    summary,         \* what main prints as the extraction summary
    dirs0,           \* history: dirs when the run started
    files0,          \* history: files when the run started
    listing,         \* history: what os.listdir returned
    visited,         \* history: <<file name, text obtained>> of every iteration
    service_calls,   \* history: the calls of client.process_document
    init_error,      \* history: DocumentProcessorServiceClient() raised
    export_error,    \* history: save_to_excel raised
    writes,          \* history: how often the output file was written
    doc_text,        \* the text a direct caller hands to extract_data_from_text
    doc_name,        \* the source identifier handed with it
    call,            \* the last direct call: its inputs and the record returned
    first,           \* history: the record of the first direct call on <<doc_text, doc_name>>
    repeated,        \* history: <<doc_text, doc_name>> was handed over more than once
    found,           \* history: what re.search finds in doc_text, per field and rule
    extracted        \* extract_data_from_text, tabulated once for the provider's texts

config_vars == <<project_id, processor_id, output_folder, extracted>>
fs_vars == <<dirs, files>>
parser_vars == <<client, processor_name>>
batch_vars == <<pdf_files, idx, all_data, extracted_data, listing, visited, service_calls>>
history_vars == <<dirs0, files0, init_error, export_error, writes>>
direct_vars == <<doc_text, doc_name, call, first, repeated, found>>
vars == <<config_vars, fs_vars, parser_vars, batch_vars, history_vars, direct_vars,
          entry, pc, exit_code, summary>>

(***************************************************************************)
(* Characters and Python's str helpers.                                      *)
(***************************************************************************)
LowerLetters == <<"a","b","c","d","e","f","g","h","i","j","k","l","m","n","o","p","q","r","s","t","u","v","w","x","y","z">>
UpperLetters == <<"A","B","C","D","E","F","G","H","I","J","K","L","M","N","O","P","Q","R","S","T","U","V","W","X","Y","Z">>

Range(f) == {f[k] : k \in DOMAIN f}

LowerSet == Range(LowerLetters)
UpperSet == Range(UpperLetters)
Letters == LowerSet \cup UpperSet
Whitespace == {" ", "\t", "\n"}
Digits == {"0","1","2","3","4","5","6","7","8","9"}
Quotes == {"'", "\""}

LowerMap == [c \in UpperSet |-> LowerLetters[CHOOSE k \in DOMAIN UpperLetters : UpperLetters[k] = c]]
UpperMap == [c \in LowerSet |-> UpperLetters[CHOOSE k \in DOMAIN LowerLetters : LowerLetters[k] = c]]

\* str.lower / str.upper on one character
LowerChar(c) == IF c \in UpperSet THEN LowerMap[c] ELSE c
UpperChar(c) == IF c \in LowerSet THEN UpperMap[c] ELSE c

\* str.lower()
Lower(s) == [k \in DOMAIN s |-> LowerChar(s[k])]

\* str.title(): the first letter of every run of letters upper-cased, the others lower-cased
Title(s) == [k \in DOMAIN s |->
               IF k > 1 /\ s[k-1] \in Letters THEN LowerChar(s[k]) ELSE UpperChar(s[k])]

\* whether w occurs in s at position i
OccursAt(s, w, i) == /\ i + Len(w) - 1 <= Len(s)
                     /\ \A k \in 1..Len(w) : s[i + k - 1] = w[k]

\* str.startswith
StartsWith(s, w) == OccursAt(s, w, 1)

\* str.endswith
EndsWith(s, w) == Len(w) <= Len(s) /\ OccursAt(s, w, Len(s) - Len(w) + 1)

\* str.replace(old, new): non-overlapping occurrences, left to right
RECURSIVE Replace(_, _, _)
Replace(s, old, new) ==
    IF s = <<>> THEN <<>>
    ELSE IF OccursAt(s, old, 1)
         THEN new \o Replace(SubSeq(s, Len(old) + 1, Len(s)), old, new)
         ELSE <<Head(s)>> \o Replace(Tail(s), old, new)

SetMin(S) == CHOOSE a \in S : \A b \in S : a <= b
SetMax(S) == CHOOSE a \in S : \A b \in S : a >= b

\* str.strip(): leading and trailing whitespace removed
Strip(s) ==
    LET keep == {k \in DOMAIN s : s[k] \notin Whitespace}
    IN IF keep = {} THEN <<>> ELSE SubSeq(s, SetMin(keep), SetMax(keep))

\* re.sub(r'\s+', ' ', s): every maximal whitespace run becomes one space
CollapseWhitespace(s) ==
    LET marked == [k \in DOMAIN s |->
                     IF s[k] \notin Whitespace THEN <<s[k], TRUE>>
                     ELSE <<" ", k = 1 \/ s[k-1] \notin Whitespace>>]
        kept == SelectSeq(marked, LAMBDA p : p[2])
    IN [k \in DOMAIN kept |-> kept[k][1]]

(***************************************************************************)
(* Regular expressions, as the sequences of items re compiles them to.       *)
(* All searches of the parser use re.IGNORECASE.                             *)
(***************************************************************************)
Lit(w) == [t |-> "lit", w |-> w]
Rep(cls, lo, lazy) == [t |-> "rep", cls |-> cls, lo |-> lo, bounded |-> FALSE, hi |-> 0, lazy |-> lazy]
RepRange(cls, lo, hi) == [t |-> "rep", cls |-> cls, lo |-> lo, bounded |-> TRUE, hi |-> hi, lazy |-> FALSE]
Alt(alts) == [t |-> "alt", alts |-> alts]
Opt(body) == Alt(<<body, <<>>>>)
GroupOpen == [t |-> "open"]
GroupClose == [t |-> "close"]

NoMatch == [ok |-> FALSE]

Min(a, b) == IF a < b THEN a ELSE b

\* the length of the longest run of characters of cls in s from position i
RunLength(s, cls, i) ==
    IF i > Len(s) \/ s[i] \notin cls THEN 0
    ELSE LET stops == {j \in i..Len(s) : s[j] \notin cls}
         IN IF stops = {} THEN Len(s) - i + 1 ELSE SetMin(stops) - i

\* a literal under IGNORECASE (the literals of the patterns are lower-case)
LitAt(s, w, i) == /\ i + Len(w) - 1 <= Len(s)
                  /\ \A k \in 1..Len(w) : LowerChar(s[i + k - 1]) = w[k]

\* among attempts <<n, result>>, the successful result of the smallest n
\* (smallest = TRUE) or of the largest n
FirstOk(attempts, smallest) ==
    LET good == {p \in attempts : p[2].ok}
    IN IF good = {} THEN NoMatch
       ELSE (CHOOSE p \in good :
               \A q \in good : IF smallest THEN p[1] <= q[1] ELSE p[1] >= q[1])[2]

\* The backtracking matcher: the first match, in re's priority order, of the
\* items at position i; gs and ge are the bounds of group 1 so far.
RECURSIVE MatchHere(_, _, _, _, _)
RECURSIVE TryCounts(_, _, _, _, _, _, _)
RECURSIVE TryAlts(_, _, _, _, _, _, _)

MatchHere(items, s, i, gs, ge) ==
    IF items = <<>> THEN [ok |-> TRUE, end |-> i, gs |-> gs, ge |-> ge]
    ELSE LET it == Head(items)
             rest == Tail(items)
         IN CASE it.t = "lit" ->
                   IF LitAt(s, it.w, i) THEN MatchHere(rest, s, i + Len(it.w), gs, ge)
                   ELSE NoMatch
              [] it.t = "open" -> MatchHere(rest, s, i, i, ge)
              [] it.t = "close" -> MatchHere(rest, s, i, gs, i)
              [] it.t = "alt" -> TryAlts(it.alts, 1, rest, s, i, gs, ge)
              [] it.t = "rep" ->
                   LET run == RunLength(s, it.cls, i)
                       most == IF it.bounded THEN Min(run, it.hi) ELSE run
                   IN IF most < it.lo THEN NoMatch
                      ELSE TryCounts(it.lo, most, it.lazy, rest, s, i, <<gs, ge>>)

\* a repetition of lo..most characters: greedy takes the longest count with
\* which the rest matches, lazy the shortest
TryCounts(lo, most, lazy, rest, s, i, g) ==
    FirstOk({<<n, MatchHere(rest, s, i + n, g[1], g[2])>> : n \in lo..most}, lazy)

\* an alternation: the alternatives in the order written
TryAlts(alts, k, rest, s, i, gs, ge) ==
    IF k > Len(alts) THEN NoMatch
    ELSE LET m == MatchHere(alts[k] \o rest, s, i, gs, ge)
         IN IF m.ok THEN m ELSE TryAlts(alts, k + 1, rest, s, i, gs, ge)

\* the positions a match of the items can start at: a pattern that opens with
\* a literal starts only where the literal's first character stands
Starts(items, s) ==
    IF items # <<>> /\ Head(items).t = "lit"
    THEN {i \in 1..Len(s) : LowerChar(s[i]) = Head(items).w[1]}
    ELSE 1..(Len(s) + 1)

\* re.search(pattern, s, re.IGNORECASE): the match at the leftmost start
Search(items, s) ==
    FirstOk({<<i, MatchHere(items, s, i, 0, 0)>> : i \in Starts(items, s)}, TRUE)

\* match.group(1)
Group1(s, m) == SubSeq(s, m.gs, m.ge - 1)

(***************************************************************************)
(* The pattern lists of extract_data_from_text.                              *)
(***************************************************************************)
AlphaSpace == Letters \cup Whitespace
ColonSpace == {":"} \cup Whitespace
DigitComma == Digits \cup {","}

w_constituency == <<"c","o","n","s","t","i","t","u","e","n","c","y">>
w_name == <<"n","a","m","e">>
w_election == <<"e","l","e","c","t","i","o","n">>
w_total == <<"t","o","t","a","l">>
w_number == <<"n","u","m","b","e","r">>
w_of == <<"o","f">>
w_electors == <<"e","l","e","c","t","o","r","s">>
w_registered == <<"r","e","g","i","s","t","e","r","e","d">>
w_voters == <<"v","o","t","e","r","s">>
w_valid == <<"v","a","l","i","d">>
w_votes == <<"v","o","t","e","s">>
w_polled == <<"p","o","l","l","e","d">>
w_cast == <<"c","a","s","t">>
w_none == <<"n","o","n","e">>
w_the == <<"t","h","e">>
w_above == <<"a","b","o","v","e">>
w_nota == <<"n","o","t","a">>
w_for == <<"f","o","r">>
w_option == <<"o","p","t","i","o","n">>

Sp == Rep(Whitespace, 1, FALSE)          \* \s+
Sep == Rep(ColonSpace, 1, FALSE)         \* [:\s]+
Number == <<GroupOpen, Rep(DigitComma, 1, FALSE), GroupClose>>   \* ([0-9,]+)
Quote == RepRange(Quotes, 0, 1)          \* [\'"]?
NoneOfTheAbove == <<Lit(w_none), Sp, Lit(w_of), Sp, Lit(w_the), Sp, Lit(w_above)>>

constituency_patterns == <<
    \* constituency\s+name[:\s]+([A-Za-z\s]+?)(?:\n|election|total)
    <<Lit(w_constituency), Sp, Lit(w_name), Sep,
      GroupOpen, Rep(AlphaSpace, 1, TRUE), GroupClose,
      Alt(<< <<Lit(<<"\n">>)>>, <<Lit(w_election)>>, <<Lit(w_total)>> >>)>>,
    \* constituency[:\s]+([A-Za-z\s]+?)(?:\n|election|total)
    <<Lit(w_constituency), Sep,
      GroupOpen, Rep(AlphaSpace, 1, TRUE), GroupClose,
      Alt(<< <<Lit(<<"\n">>)>>, <<Lit(w_election)>>, <<Lit(w_total)>> >>)>>,
    \* ([A-Z][A-Za-z\s]+)\s+constituency
    <<GroupOpen, RepRange(Letters, 1, 1), Rep(AlphaSpace, 1, FALSE), GroupClose,
      Sp, Lit(w_constituency)>>,
    \* name[:\s]+([A-Za-z\s]+?)(?:\n|total|election)
    <<Lit(w_name), Sep,
      GroupOpen, Rep(AlphaSpace, 1, TRUE), GroupClose,
      Alt(<< <<Lit(<<"\n">>)>>, <<Lit(w_total)>>, <<Lit(w_election)>> >>)>>,
    \* constituency[:\s]*([A-Za-z][A-Za-z\s]{3,30})(?:\s*\n|\s+election|\s+total)
    <<Lit(w_constituency), Rep(ColonSpace, 0, FALSE),
      GroupOpen, RepRange(Letters, 1, 1), RepRange(AlphaSpace, 3, 30), GroupClose,
      Alt(<< <<Rep(Whitespace, 0, FALSE), Lit(<<"\n">>)>>,
             <<Sp, Lit(w_election)>>,
             <<Sp, Lit(w_total)>> >>)>> >>

elector_patterns == <<
    \* total\s+(?:number\s+of\s+)?electors[:\s]+([0-9,]+)
    <<Lit(w_total), Sp, Opt(<<Lit(w_number), Sp, Lit(w_of), Sp>>), Lit(w_electors), Sep>> \o Number,
    \* electors[:\s]+([0-9,]+)
    <<Lit(w_electors), Sep>> \o Number,
    \* total\s+electors[:\s]+([0-9,]+)
    <<Lit(w_total), Sp, Lit(w_electors), Sep>> \o Number,
    \* registered\s+voters[:\s]+([0-9,]+)
    <<Lit(w_registered), Sp, Lit(w_voters), Sep>> \o Number,
    \* total\s+registered[:\s]+([0-9,]+)
    <<Lit(w_total), Sp, Lit(w_registered), Sep>> \o Number >>

valid_votes_patterns == <<
    \* total\s+(?:number\s+of\s+)?valid\s+votes\s+polled[:\s]+([0-9,]+)
    <<Lit(w_total), Sp, Opt(<<Lit(w_number), Sp, Lit(w_of), Sp>>),
      Lit(w_valid), Sp, Lit(w_votes), Sp, Lit(w_polled), Sep>> \o Number,
    \* valid\s+votes\s+polled[:\s]+([0-9,]+)
    <<Lit(w_valid), Sp, Lit(w_votes), Sp, Lit(w_polled), Sep>> \o Number,
    \* total\s+valid\s+votes[:\s]+([0-9,]+)
    <<Lit(w_total), Sp, Lit(w_valid), Sp, Lit(w_votes), Sep>> \o Number,
    \* votes\s+polled[:\s]+([0-9,]+)
    <<Lit(w_votes), Sp, Lit(w_polled), Sep>> \o Number,
    \* total\s+votes\s+cast[:\s]+([0-9,]+)
    <<Lit(w_total), Sp, Lit(w_votes), Sp, Lit(w_cast), Sep>> \o Number >>

nota_patterns == <<
    \* none\s+of\s+the\s+above[:\s]+([0-9,]+)
    NoneOfTheAbove \o <<Sep>> \o Number,
    \* nota[:\s]+([0-9,]+)
    <<Lit(w_nota), Sep>> \o Number,
    \* votes\s+for\s+[\'"]?none\s+of\s+the\s+above[\'"]?[:\s]+([0-9,]+)
    <<Lit(w_votes), Sp, Lit(w_for), Sp, Quote>> \o NoneOfTheAbove \o <<Quote, Sep>> \o Number,
    \* [\'"]?none\s+of\s+the\s+above[\'"]?[:\s]+([0-9,]+)
    <<Quote>> \o NoneOfTheAbove \o <<Quote, Sep>> \o Number,
    \* option\s+nota[:\s]+([0-9,]+)
    <<Lit(w_option), Sp, Lit(w_nota), Sep>> \o Number >>

(***************************************************************************)
(* Records: a Python dict, as the sequence of its (key, value) pairs in      *)
(* insertion order.                                                          *)
(***************************************************************************)
DictKeys(d) == [k \in DOMAIN d |-> d[k][1]]
DictGet(d, key) == d[CHOOSE k \in DOMAIN d : d[k][1] = key][2]
DictHas(d, key) == \E k \in DOMAIN d : d[k][1] = key
DictSet(d, key, v) ==
    IF DictHas(d, key) THEN [k \in DOMAIN d |-> IF d[k][1] = key THEN <<key, v>> ELSE d[k]]
    ELSE Append(d, <<key, v>>)

\* as InitialData, but the key nota_votes is only set by a match
InitialDataWithoutNota(filename) == << <<"filename", filename>>,
                                       <<"constituency_name", <<>> >>,
                                       <<"total_electors", <<>> >>,
                                       <<"valid_votes_polled", <<>> >> >>

\* as InitialData, but the dict of the previous call is used again
InitialDataStale(filename) ==
    IF call.record = <<>>
    THEN << <<"filename", filename>>, <<"constituency_name", <<>> >>, <<"total_electors", <<>> >>,
            <<"valid_votes_polled", <<>> >>, <<"nota_votes", <<>> >> >>
    ELSE DictSet(call.record, "filename", filename)

\* the dict literal data = {...} that opens extract_data_from_text
InitialData(filename) == << <<"filename", filename>>,
                            <<"constituency_name", <<>> >>,
                            <<"total_electors", <<>> >>,
                            <<"valid_votes_polled", <<>> >>,
                            <<"nota_votes", <<>> >> >>

\* clean_text = re.sub(r'\s+', ' ', text.strip())
CleanText(text) == CollapseWhitespace(Strip(text))

RejectedPrefixes == {w_total, w_number, w_election}

\* as NameAccepted, but a name of 3 characters passes
NameAcceptedFrom3(name) ==
    /\ Len(name) >= 3
    /\ ~ \E p \in RejectedPrefixes : StartsWith(Lower(name), p)

\* the validation of a constituency candidate
NameAccepted(name) ==
    /\ Len(name) > 3
    /\ ~ \E p \in RejectedPrefixes : StartsWith(Lower(name), p)

\* the candidate of a constituency match: match.group(1).strip()
NameCandidate(clean_text, m) == Strip(Group1(clean_text, m))

\* the constituency loop: the first pattern, from the k-th on, that matches and
\* whose candidate is accepted sets the field, which is left alone otherwise
RECURSIVE ConstituencyLoop(_, _, _, _)

ConstituencyStep(patterns, k, clean_text, data, m) ==
    IF m.ok /\ NameAccepted(NameCandidate(clean_text, m))
    THEN DictSet(data, "constituency_name", NameCandidate(clean_text, m))
    ELSE ConstituencyLoop(patterns, k + 1, clean_text, data)

ConstituencyLoop(patterns, k, clean_text, data) ==
    IF k > Len(patterns) THEN data
    ELSE ConstituencyStep(patterns, k, clean_text, data, Search(patterns[k], clean_text))

\* as RemoveCommas, but the span is kept as matched
KeepCommas(s) == s

\* match.group(1).replace(',', '')
RemoveCommas(s) == SelectSeq(s, LAMBDA c : c # ",")

\* a numeric loop: the first pattern, from the k-th on, that matches sets the field
RECURSIVE NumericLoop(_, _, _, _, _)

\* as NumericStep, but the loop goes on after a match
NumericStepNoBreak(patterns, k, clean_text, data, key, m) ==
    IF m.ok THEN NumericLoop(patterns, k + 1, clean_text,
                             DictSet(data, key, RemoveCommas(Group1(clean_text, m))), key)
    ELSE NumericLoop(patterns, k + 1, clean_text, data, key)

NumericStep(patterns, k, clean_text, data, key, m) ==
    IF m.ok THEN DictSet(data, key, RemoveCommas(Group1(clean_text, m)))
    ELSE NumericLoop(patterns, k + 1, clean_text, data, key)

NumericLoop(patterns, k, clean_text, data, key) ==
    IF k > Len(patterns) THEN data
    ELSE NumericStep(patterns, k, clean_text, data, key, Search(patterns[k], clean_text))

extract_data_from_text(text, filename) ==
    LET clean_text == CleanText(text)
        d1 == ConstituencyLoop(constituency_patterns, 1, clean_text, InitialData(filename))
        d2 == NumericLoop(elector_patterns, 1, clean_text, d1, "total_electors")
        d3 == NumericLoop(valid_votes_patterns, 1, clean_text, d2, "valid_votes_polled")
    IN NumericLoop(nota_patterns, 1, clean_text, d3, "nota_votes")


(***************************************************************************)
(* config.py, the file system and the document service.                     *)
(***************************************************************************)
None == "None"

PDF_FOLDER == <<"d","a","t","a">>
DefaultOutputFolder == <<"o","u","t","p","u","t">>
OUTPUT_FILE == <<"e","x","t","r","a","c","t","e","d","_","d","a","t","a",".","x","l","s","x">>
LOCATION == "us"

\* the values the environment may give PROJECT_ID and PROCESSOR_ID
IdValues == {None, "", "id-1"}

\* the values the environment may give OUTPUT_FOLDER
OutputFolders == {DefaultOutputFolder, PDF_FOLDER}

\* bool(x) of a configuration value
Truthy(x) == x # None /\ x # ""

\* os.path.join and os.path.basename
Join(folder, name) == folder \o <<"/">> \o name
Basename(path) ==
    LET slashes == {k \in DOMAIN path : path[k] = "/"}
    IN IF slashes = {} THEN path ELSE SubSeq(path, SetMax(slashes) + 1, Len(path))

\* the names files of the input directory may have
FileNames == { <<"w","a","r","d","_","a",".","p","d","f">>,
               <<"B",".","P","D","F">>,
               <<"n","o","t","e","s",".","t","x","t">> }

\* what the document service may return as document.text
ServiceTexts == {
    <<>>,
    <<" ","\n">>,
    <<"C","o","n","s","t","i","t","u","e","n","c","y"," ","N","a","m","e",":"," ",
      "E","x","a","m","p","l","e"," ","E","a","s","t","\n",
      "T","o","t","a","l"," ","n","u","m","b","e","r"," ","o","f"," ",
      "e","l","e","c","t","o","r","s",":"," ","4","5",",","6","7","8","\n",
      "N","O","T","A",":"," ","1",",","2","3","4">> }

\* the content of a document of the input directory
PdfContent == [header |-> <<"%PDF">>, rows |-> <<>>]

\* the table an earlier run left at the output path
OldTable == [header |-> <<"Filename">>, rows |-> << <<"old.pdf">> >>]

\* every ordering of a finite set
Orderings(S) == {q \in [1..Cardinality(S) -> S] : \A a, b \in DOMAIN q : a # b => q[a] # q[b]}

(***************************************************************************)
(* PDFParser                                                                 *)
(***************************************************************************)
\* as ConfigComplete, but one identifier is enough
ConfigCompleteAny(project_id_, processor_id_) == Truthy(project_id_) \/ Truthy(processor_id_)

\* all([config.PROJECT_ID, config.PROCESSOR_ID])
ConfigComplete(project_id_, processor_id_) == Truthy(project_id_) /\ Truthy(processor_id_)

\* client.processor_path(PROJECT_ID, LOCATION, PROCESSOR_ID)
processor_path(project_id_, location, processor_id_) == <<project_id_, location, processor_id_>>

\* processor_name = None
NoProcessor == <<>>

MockHead ==
    <<"\n"," "," "," "," "," "," "," "," ","E","l","e","c","t","o","r","a","l"," ","R","e","s","u","l",
      "t","s"," ","R","e","p","o","r","t","\n"," "," "," "," "," "," "," "," ","\n"," "," "," "," "," ",
      " "," "," ","C","o","n","s","t","i","t","u","e","n","c","y"," ","N","a","m","e",":"," ">>
MockTail ==
    <<"\n"," "," "," "," "," "," "," "," ","\n"," "," "," "," "," "," "," "," ","E","l","e","c","t","i",
      "o","n"," ","S","u","m","m","a","r","y",":","\n"," "," "," "," "," "," "," "," ","T","o","t","a",
      "l"," ","n","u","m","b","e","r"," ","o","f"," ","e","l","e","c","t","o","r","s",":"," ","4","5",",",
      "6","7","8","\n"," "," "," "," "," "," "," "," ","T","o","t","a","l"," ","n","u","m","b","e","r",
      " ","o","f"," ","v","a","l","i","d"," ","v","o","t","e","s"," ","p","o","l","l","e","d",":"," ","3",
      "8",",","2","3","4","\n"," "," "," "," "," "," "," "," ","T","o","t","a","l"," ","n","u","m","b",
      "e","r"," ","o","f"," ","v","o","t","e","s"," ","f","o","r"," ","'","N","o","n","e"," ","o","f"," ",
      "t","h","e"," ","A","b","o","v","e","'",":"," ","1",",","2","3","4","\n"," "," "," "," "," "," ",
      " "," ","\n"," "," "," "," "," "," "," "," ","A","d","d","i","t","i","o","n","a","l"," ","d","e",
      "t","a","i","l","s",".",".",".","\n"," "," "," "," "," "," "," "," ">>

w_pdf == <<".","p","d","f">>

\* _mock_pdf_text: the report synthesized from the file name
mock_pdf_text(pdf_path) ==
    LET filename == Basename(pdf_path)
        constituency_name == Title(Replace(Replace(filename, w_pdf, <<>>), <<"_">>, <<" ">>))
    IN MockHead \o constituency_name \o MockTail

\* f.lower().endswith('.pdf')
IsPdf(f) == EndsWith(Lower(f), w_pdf)

\* the texts extract_text_from_pdf can return for a file name
ProviderTexts(f) == {mock_pdf_text(Join(PDF_FOLDER, f))} \cup ServiceTexts

\* extract_data_from_text on every text the provider can return for a file name
ExtractAll ==
    [f \in FileNames |-> [t \in ProviderTexts(f) |-> extract_data_from_text(t, f)]]

\* as AppendIfText, but a document without text gets a record of empty fields
AppendAlways(all_data_, text_, pdf_file, table) ==
    IF text_ # <<>> THEN Append(all_data_, table[pdf_file][text_])
    ELSE Append(all_data_, InitialData(pdf_file))

\* the body of the loop of process_all_pdfs after the text is obtained; table holds
\* the records of extract_data_from_text
AppendIfText(all_data_, text_, pdf_file, table) ==
    IF text_ # <<>> THEN Append(all_data_, table[pdf_file][text_])
    ELSE all_data_

\* the column names save_to_excel assigns
Header == <<"Filename", "Constituency Name", "Total Electors", "Valid Votes Polled", "NOTA Votes">>

\* pd.DataFrame(data): the columns are the keys in first-seen order, a row per record
RECURSIVE FrameColumns(_)
FrameColumns(data) ==
    IF data = <<>> THEN <<>>
    ELSE LET before == FrameColumns(SubSeq(data, 1, Len(data) - 1))
             seen == {before[k] : k \in DOMAIN before}
         IN before \o SelectSeq(DictKeys(data[Len(data)]), LAMBDA key : key \notin seen)

\* as FrameRows, but the last record appended comes first
FrameRowsNewestFirst(data) ==
    [r \in DOMAIN data |->
        [c \in DOMAIN FrameColumns(data) |->
            DictGet(data[Len(data) + 1 - r], FrameColumns(data)[c])]]

FrameRows(data) ==
    [r \in DOMAIN data |->
        [c \in DOMAIN FrameColumns(data) |->
            IF DictHas(data[r], FrameColumns(data)[c])
            THEN DictGet(data[r], FrameColumns(data)[c]) ELSE <<"NaN">>]]

\* as output_path, but under the input folder
OutputPathInInput(output_folder_) == Join(PDF_FOLDER, OUTPUT_FILE)

\* output_path = os.path.join(config.OUTPUT_FOLDER, config.OUTPUT_FILE)
output_path(output_folder_) == Join(output_folder_, OUTPUT_FILE)

\* the names os.listdir(folder) returns, in no order
DirNames(folder) == {Basename(p) : p \in {q \in DOMAIN files : SubSeq(q, 1, Len(folder) + 1) = folder \o <<"/">>}}

\* no direct call yet
NoCall == [text |-> <<>>, filename |-> <<>>, record |-> <<>>]

Init ==
    /\ call = NoCall
    /\ extracted = ExtractAll
    /\ project_id \in IdValues
    /\ processor_id \in IdValues
    /\ output_folder \in OutputFolders
    /\ entry \in {"main", "library"}
    /\ \E present \in SUBSET FileNames, old \in BOOLEAN :
          /\ dirs \in SUBSET {PDF_FOLDER, output_folder}
          /\ present # {} => PDF_FOLDER \in dirs
          /\ old => output_folder \in dirs
          /\ files = [p \in {Join(PDF_FOLDER, f) : f \in present}
                             \cup (IF old THEN {output_path(output_folder)} ELSE {})
                        |-> IF p = output_path(output_folder) THEN OldTable ELSE PdfContent]
    /\ pc = IF entry = "main" THEN "main" ELSE "construct"
    /\ exit_code = "running"
    /\ client = None /\ processor_name = NoProcessor
    /\ pdf_files = <<>> /\ idx = 0 /\ all_data = <<>> /\ extracted_data = <<>>
    /\ summary = <<>>
    /\ dirs0 = dirs /\ files0 = files
    /\ listing = <<>> /\ visited = <<>> /\ service_calls = 0
    /\ init_error = FALSE /\ export_error = FALSE /\ writes = 0
    /\ doc_text = <<>> /\ doc_name = <<>> /\ first = <<>> /\ repeated = FALSE /\ found = <<>>

(***************************************************************************)
(* main, up to the parser.                                                   *)
(***************************************************************************)
\* os.makedirs(config.PDF_FOLDER, exist_ok=True)
MainMakedirs ==
    /\ pc = "main"
    /\ dirs' = dirs \cup {PDF_FOLDER}
    /\ pc' = "construct"
    /\ UNCHANGED <<config_vars, files, parser_vars, batch_vars, history_vars, direct_vars,
                   entry, exit_code, summary>>

\* PDFParser.__init__ with an identifier missing: no client
ConstructMock ==
    /\ pc = "construct"
    /\ ~ConfigComplete(project_id, processor_id)
    /\ client' = None /\ processor_name' = NoProcessor
    /\ pc' = "process"
    /\ UNCHANGED <<config_vars, fs_vars, batch_vars, history_vars, direct_vars,
                   entry, exit_code, summary>>

\* PDFParser.__init__ with both identifiers: the client is built, or building it
\* raises and the exception is caught there
ConstructClient ==
    /\ pc = "construct"
    /\ ConfigComplete(project_id, processor_id)
    /\ \E raised \in BOOLEAN :
          /\ client' = IF raised THEN None ELSE "client"
          /\ processor_name' = IF raised THEN NoProcessor
                               ELSE processor_path(project_id, LOCATION, processor_id)
          /\ init_error' = raised
    /\ pc' = "process"
    /\ UNCHANGED <<config_vars, fs_vars, batch_vars, dirs0, files0, export_error, writes,
                   direct_vars, entry, exit_code, summary>>

(***************************************************************************)
(* process_all_pdfs                                                          *)
(***************************************************************************)
\* the folder does not exist: return []
ProcessMissing ==
    /\ pc = "process"
    /\ PDF_FOLDER \notin dirs
    /\ extracted_data' = <<>>
    /\ pc' = "returned"
    /\ UNCHANGED <<config_vars, fs_vars, parser_vars, pdf_files, idx, all_data, listing, visited,
                   service_calls, history_vars, direct_vars, entry, exit_code, summary>>

\* the folder is listed; without a matching file: return []
ProcessList ==
    /\ pc = "process"
    /\ PDF_FOLDER \in dirs
    /\ \E order \in Orderings(DirNames(PDF_FOLDER)) :
          /\ listing' = order
          /\ pdf_files' = SelectSeq(order, IsPdf)
    /\ idx' = 1
    /\ all_data' = <<>>
    /\ IF pdf_files' = <<>>
       THEN extracted_data' = <<>> /\ pc' = "returned"
       ELSE extracted_data' = extracted_data /\ pc' = "loop"
    /\ UNCHANGED <<config_vars, fs_vars, parser_vars, visited, service_calls, history_vars,
                   direct_vars, entry, exit_code, summary>>

\* one iteration without a client: extract_text_from_pdf returns the mock text
LoopMock ==
    /\ pc = "loop"
    /\ idx <= Len(pdf_files)
    /\ client = None
    /\ LET pdf_file == pdf_files[idx]
           got == mock_pdf_text(Join(PDF_FOLDER, pdf_file))
       IN /\ all_data' = AppendIfText(all_data, got, pdf_file, extracted)
          /\ visited' = Append(visited, <<pdf_file, got>>)
    /\ idx' = idx + 1
    /\ UNCHANGED <<config_vars, fs_vars, parser_vars, pdf_files, extracted_data, listing,
                   service_calls, history_vars, direct_vars, entry, pc, exit_code, summary>>

\* one iteration with a client: the file is read and sent to the service, which
\* returns the text; an exception of either step is caught and gives ""
LoopService ==
    /\ pc = "loop"
    /\ idx <= Len(pdf_files)
    /\ client # None
    /\ \E outcome \in {"open raises", "service raises", "text"}, answer \in ServiceTexts :
          LET pdf_file == pdf_files[idx]
              got == IF outcome = "text" THEN answer ELSE <<>>
          IN /\ outcome # "text" => answer = <<>>
             /\ service_calls' = IF outcome = "open raises" THEN service_calls
                                 ELSE service_calls + 1
             /\ all_data' = AppendIfText(all_data, got, pdf_file, extracted)
             /\ visited' = Append(visited, <<pdf_file, got>>)
    /\ idx' = idx + 1
    /\ UNCHANGED <<config_vars, fs_vars, parser_vars, pdf_files, extracted_data, listing,
                   history_vars, direct_vars, entry, pc, exit_code, summary>>

\* the loop is over: return all_data
ProcessReturn ==
    /\ pc = "loop"
    /\ idx > Len(pdf_files)
    /\ extracted_data' = all_data
    /\ pc' = "returned"
    /\ UNCHANGED <<config_vars, fs_vars, parser_vars, pdf_files, idx, all_data, listing, visited,
                   service_calls, history_vars, direct_vars, entry, exit_code, summary>>

(***************************************************************************)
(* After process_all_pdfs: main, or the library caller.                      *)
(***************************************************************************)
\* main: if extracted_data: save, else report that nothing was extracted
MainCheck ==
    /\ pc = "returned"
    /\ entry = "main"
    /\ IF extracted_data # <<>>
       THEN pc' = "save" /\ exit_code' = exit_code
       ELSE pc' = "done" /\ exit_code' = "exit 0"
    /\ UNCHANGED <<config_vars, fs_vars, parser_vars, batch_vars, history_vars, direct_vars,
                   entry, summary>>

\* a library caller hands whatever was returned to save_to_excel
LibrarySave ==
    /\ pc = "returned"
    /\ entry = "library"
    /\ pc' = "save"
    /\ UNCHANGED <<config_vars, fs_vars, parser_vars, batch_vars, history_vars, direct_vars,
                   entry, exit_code, summary>>

\* where the run is after save_to_excel returned
AfterSave == IF entry = "main" THEN "summary" ELSE "done"

\* as SaveEmpty, but without the guard: the frame of no records is given the
\* five column names, which raises
SaveEmptyUnguarded ==
    /\ pc = "save"
    /\ extracted_data = <<>>
    /\ dirs' = dirs \cup {output_folder}
    /\ export_error' = TRUE
    /\ pc' = "done"
    /\ exit_code' = IF entry = "main" THEN "exit 1" ELSE "raised"
    /\ UNCHANGED <<config_vars, files, parser_vars, batch_vars, dirs0, files0, init_error, writes,
                   direct_vars, entry, summary>>

\* save_to_excel(data) with no data: return
SaveEmpty ==
    /\ pc = "save"
    /\ extracted_data = <<>>
    /\ pc' = AfterSave
    /\ exit_code' = IF entry = "main" THEN exit_code ELSE "returned"
    /\ UNCHANGED <<config_vars, fs_vars, parser_vars, batch_vars, history_vars, direct_vars,
                   entry, summary>>

\* save_to_excel(data): the folder is made, the frame built and written
SaveWrite ==
    /\ pc = "save"
    /\ extracted_data # <<>>
    /\ Len(FrameColumns(extracted_data)) = Len(Header)
    /\ dirs' = dirs \cup {output_folder}
    /\ files' = [p \in DOMAIN files \cup {output_path(output_folder)} |->
                   IF p = output_path(output_folder)
                   THEN [header |-> Header, rows |-> FrameRows(extracted_data)]
                   ELSE files[p]]
    /\ writes' = writes + 1
    /\ pc' = AfterSave
    /\ exit_code' = IF entry = "main" THEN exit_code ELSE "returned"
    /\ UNCHANGED <<config_vars, parser_vars, batch_vars, dirs0, files0, init_error, export_error,
                   direct_vars, entry, summary>>

\* save_to_excel(data) raises: os.makedirs fails, the column names do not fit the
\* frame, or to_excel cannot write. main catches it and exits with 1.
SaveRaise ==
    /\ pc = "save"
    /\ extracted_data # <<>>
    /\ \E stage \in {"makedirs", "columns", "to_excel"} :
          /\ stage = "columns" => Len(FrameColumns(extracted_data)) # Len(Header)
          /\ stage = "to_excel" => Len(FrameColumns(extracted_data)) = Len(Header)
          /\ dirs' = IF stage = "makedirs" THEN dirs ELSE dirs \cup {output_folder}
    /\ export_error' = TRUE
    /\ pc' = "done"
    /\ exit_code' = IF entry = "main" THEN "exit 1" ELSE "raised"
    /\ UNCHANGED <<config_vars, files, parser_vars, batch_vars, dirs0, files0, init_error, writes,
                   direct_vars, entry, summary>>

\* any(data[key] for key in data.keys() if key != 'filename')
HasExtraction(data) == \E k \in DOMAIN data : data[k][1] # "filename" /\ data[k][2] # <<>>

\* main prints the summary and returns
MainSummary ==
    /\ pc = "summary"
    /\ summary' = <<[files_processed |-> Len(extracted_data),
                   successful_extractions |->
                       Cardinality({k \in DOMAIN extracted_data : HasExtraction(extracted_data[k])})]>>
    /\ pc' = "done"
    /\ exit_code' = "exit 0"
    /\ UNCHANGED <<config_vars, fs_vars, parser_vars, batch_vars, history_vars, direct_vars, entry>>

Next ==
    \/ MainMakedirs
    \/ ConstructMock
    \/ ConstructClient
    \/ ProcessMissing
    \/ ProcessList
    \/ LoopMock
    \/ LoopService
    \/ ProcessReturn
    \/ MainCheck
    \/ LibrarySave
    \/ SaveEmpty
    \/ SaveWrite
    \/ SaveRaise
    \/ MainSummary

Spec == Init /\ [][Next]_vars

(***************************************************************************)
(* extract_data_from_text called directly, on texts put together from the    *)
(* phrases of one field.                                                     *)
(***************************************************************************)
ConstituencyChunks == {
    <<"C","o","n","s","t","i","t","u","e","n","c","y"," ","N","a","m","e",":"," ","S","a","l",
      "e","m"," ">>,
    <<"C","o","n","s","t","i","t","u","e","n","c","y",":"," ","A","b","c"," ">>,
    <<"C","o","n","s","t","i","t","u","e","n","c","y","\n">>,
    <<"N","o","r","t","h"," ">>,
    <<"T","o","t","a","l"," ">> }

ElectorChunks == {
    <<"T","o","t","a","l"," ","e","l","e","c","t","o","r","s",":"," ","4",",","5"," ">>,
    <<"e","l","e","c","t","o","r","s",":"," ","7"," ">>,
    <<"R","e","g","i","s","t","e","r","e","d"," ","v","o","t","e","r","s",":","\t">>,
    <<",">> }

ValidVotesChunks == {
    <<"T","o","t","a","l"," ","v","a","l","i","d"," ","v","o","t","e","s"," ","p","o","l","l","e","d",":"," ",
      "4",",","5"," ">>,
    <<"V","o","t","e","s"," ","p","o","l","l","e","d",":"," ","7"," ">>,
    <<"t","o","t","a","l"," ","v","o","t","e","s"," ","c","a","s","t",":"," ">>,
    <<",">> }

NotaChunks == {
    <<"N","o","n","e"," ","o","f"," ","t","h","e"," ","A","b","o","v","e",":"," ","4",",","5"," ">>,
    <<"N","O","T","A",":"," ","7"," ">>,
    <<"'","N","o","n","e"," ","o","f"," ","t","h","e"," ","A","b","o","v","e","'",":"," ">>,
    <<",">> }

OtherText == <<"C","o","n","s","t","i","t","u","e","n","c","y",":"," ","O","t","h","e","r"," ","T","o",
      "w","n"," ","T","o","t","a","l"," ","e","l","e","c","t","o","r","s",":"," ","9"," ","v",
      "o","t","e","s"," ","p","o","l","l","e","d",":"," ","8"," ","N","O","T","A",":"," ","1">>

OtherName == <<"o",".","p","d","f">>
DirectName == <<"w","a","r","d","_","a",".","p","d","f">>

\* the most phrases a text is put together from
MaxChunks == 3

RECURSIVE Concat(_)
Concat(q) == IF q = <<>> THEN <<>> ELSE Head(q) \o Concat(Tail(q))

ChunkTexts(chunks) == {Concat(q) : q \in UNION {[1..n -> chunks] : n \in 0..MaxChunks}}

DirectTexts == ChunkTexts(ConstituencyChunks) \cup ChunkTexts(ElectorChunks)
               \cup ChunkTexts(ValidVotesChunks) \cup ChunkTexts(NotaChunks)

\* what a search gave: whether the rule matched, and what group 1 spans
Hit(c, m) == [ok |-> m.ok, span |-> IF m.ok THEN Group1(c, m) ELSE <<>>]

\* re.search(pattern, clean_text, re.IGNORECASE) for the first k patterns of a list
RECURSIVE FoundUpTo(_, _, _)

FoundUpTo(patterns, k, c) ==
    IF k = 0 THEN <<>>
    ELSE Append(FoundUpTo(patterns, k - 1, c), Hit(c, Search(patterns[k], c)))

FoundIn(patterns, c) == FoundUpTo(patterns, Len(patterns), c)

\* the same for the four lists, by the field they fill
FoundAll(c) ==
    [constituency_name |-> FoundIn(constituency_patterns, c),
     total_electors |-> FoundIn(elector_patterns, c),
     valid_votes_polled |-> FoundIn(valid_votes_patterns, c),
     nota_votes |-> FoundIn(nota_patterns, c)]

ExtractInit ==
    /\ call = NoCall
    /\ extracted = [f \in {OtherName} |-> [t \in {OtherText} |-> extract_data_from_text(t, f)]]
    /\ project_id = None /\ processor_id = None /\ output_folder = DefaultOutputFolder
    /\ dirs = {} /\ files = <<>>
    /\ entry = "library" /\ pc = "direct" /\ exit_code = "running"
    /\ client = None /\ processor_name = NoProcessor
    /\ pdf_files = <<>> /\ idx = 0 /\ all_data = <<>> /\ extracted_data = <<>>
    /\ summary = <<>>
    /\ dirs0 = dirs /\ files0 = files
    /\ listing = <<>> /\ visited = <<>> /\ service_calls = 0
    /\ init_error = FALSE /\ export_error = FALSE /\ writes = 0
    /\ doc_text \in DirectTexts
    /\ doc_name = DirectName
    /\ first = <<>> /\ repeated = FALSE
    /\ \E clean_text \in {CleanText(doc_text)} : found = FoundAll(clean_text)

\* parser.extract_data_from_text(doc_text, doc_name)
DirectCall ==
    /\ pc = "direct"
    /\ call' = [text |-> doc_text, filename |-> doc_name,
                record |-> extract_data_from_text(doc_text, doc_name)]
    /\ first' = IF first = <<>> THEN call'.record ELSE first
    /\ repeated' = (first # <<>>)
    /\ UNCHANGED <<config_vars, fs_vars, parser_vars, batch_vars, history_vars, doc_text, doc_name,
                   found, entry, pc, exit_code, summary>>

\* the same parser called on another document
DirectCallOther ==
    /\ pc = "direct"
    /\ call' = [text |-> OtherText, filename |-> OtherName,
                record |-> extracted[OtherName][OtherText]]
    /\ UNCHANGED <<config_vars, fs_vars, parser_vars, batch_vars, history_vars, doc_text, doc_name,
                   first, repeated, found, entry, pc, exit_code, summary>>

ExtractNext ==
    \/ DirectCall
    \/ DirectCallOther

ExtractSpec == ExtractInit /\ [][ExtractNext]_vars

(***************************************************************************)
(* What the claims are stated with.                                          *)
(***************************************************************************)
\* the positions at or after the return of process_all_pdfs
Returned == pc \in {"returned", "save", "summary", "done"}

\* a file name with the extension .pdf in any case
HasPdfExtension(f) ==
    /\ Len(f) >= 4
    /\ Lower(SubSeq(f, Len(f) - 3, Len(f))) = <<".","p","d","f">>

\* the names of the files the input directory held at the start
InputNames0 == {SubSeq(p, Len(PDF_FOLDER) + 2, Len(p)) :
                  p \in {q \in DOMAIN files0 : SubSeq(q, 1, Len(PDF_FOLDER) + 1) = PDF_FOLDER \o <<"/">>}}

VisitedNames == [k \in DOMAIN visited |-> visited[k][1]]

\* the iterations that obtained a non-empty text
WithText == SelectSeq(visited, LAMBDA v : v[2] # <<>>)

(***************************************************************************)
(* C1: process_all_pdfs visits exactly the files of the input directory      *)
(* whose name ends in .pdf (in any case), in enumeration order; every        *)
(* iteration appends one record when the text is non-empty and nothing       *)
(* otherwise, and goes on to the next file; the list returned is the         *)
(* records of the documents with text, in enumeration order.                 *)
(***************************************************************************)
C1_BatchRecords ==
    /\ pc = "loop" =>
          /\ VisitedNames = SubSeq(pdf_files, 1, idx - 1)
          /\ all_data = [k \in DOMAIN WithText |-> extracted[WithText[k][1]][WithText[k][2]]]
    /\ Returned =>
          /\ VisitedNames = SelectSeq(listing, HasPdfExtension)
          /\ {listing[k] : k \in DOMAIN listing} \subseteq InputNames0
          /\ PDF_FOLDER \in dirs =>
                {VisitedNames[k] : k \in DOMAIN visited} = {f \in InputNames0 : HasPdfExtension(f)}
          /\ extracted_data = [k \in DOMAIN WithText |-> extracted[WithText[k][1]][WithText[k][2]]]
          /\ \A k \in DOMAIN extracted_data :
                DictGet(extracted_data[k], "filename") = WithText[k][1]

\* a batch of two documents and a file of another extension, returned after
\* the first document failed and the second gave a record
C1_Witness ==
    /\ pc = "done"
    /\ Len(visited) = 2 /\ Len(listing) = 3
    /\ visited[1][2] = <<>> /\ visited[2][2] # <<>>
    /\ Len(extracted_data) = 1

\* extract_data_from_text has been called on <<doc_text, doc_name>>, and the
\* record it returned
Called == call.record # <<>> /\ call.text = doc_text /\ call.filename = doc_name
Rec == call.record

\* the rules of a field that match the text, and what group 1 of a rule spans
Matching(fld) == {k \in DOMAIN found[fld] : found[fld][k].ok}
Span(fld, k) == found[fld][k].span

\* the digits of a span, in their order
DigitsOf(span) == SelectSeq(span, LAMBDA ch : ch \in Digits)

\* a name of more than 3 characters that opens with none of the generic words
Acceptable(name) ==
    /\ Len(name) > 3
    /\ \A p \in { <<"t","o","t","a","l">>, <<"n","u","m","b","e","r">>,
                  <<"e","l","e","c","t","i","o","n">> } :
          ~(Len(name) >= Len(p) /\ Lower(SubSeq(name, 1, Len(p))) = p)

\* the trimmed candidate of the k-th constituency rule, and the rules whose
\* candidate is acceptable
Candidate(k) == Strip(Span("constituency_name", k))
AcceptedRules == {k \in Matching("constituency_name") : Acceptable(Candidate(k))}

NumericFields == {"total_electors", "valid_votes_polled", "nota_votes"}

\* the smallest of a set of rule numbers
FirstOf(ks) == CHOOSE k \in ks : \A j \in ks : k <= j

(***************************************************************************)
(* C2: in each of the four fields the value is the one of the first rule, in *)
(* the listed order, that matches and passes validation, whatever later      *)
(* rules match.                                                              *)
(***************************************************************************)
C2_FirstRuleWins ==
    Called =>
        /\ \A fld \in NumericFields :
              Matching(fld) # {} => DictGet(Rec, fld) = DigitsOf(Span(fld, FirstOf(Matching(fld))))
        /\ AcceptedRules # {} =>
              DictGet(Rec, "constituency_name") = Candidate(FirstOf(AcceptedRules))

\* the first rule and a later rule of a numeric field match with different
\* results, and the field holds the first rule's
C2_Witness ==
    /\ Called
    /\ \E fld \in NumericFields :
          /\ 1 \in Matching(fld)
          /\ \E k \in Matching(fld) : DigitsOf(Span(fld, k)) # DigitsOf(Span(fld, 1))
          /\ DictGet(Rec, fld) = DigitsOf(Span(fld, 1))

(***************************************************************************)
(* C3: a constituency candidate of 3 characters or less, or that opens with  *)
(* total, number or election in any case, is passed over and the next rule   *)
(* tried; with no acceptable candidate the field is empty; a non-empty       *)
(* constituency_name has more than 3 characters and opens with none of them. *)
(***************************************************************************)
C3_RejectList ==
    Called =>
        /\ DictGet(Rec, "constituency_name") # <<>> => Acceptable(DictGet(Rec, "constituency_name"))
        /\ AcceptedRules = {} => DictGet(Rec, "constituency_name") = <<>>
        /\ DictGet(Rec, "constituency_name") # <<>> =>
              \E k \in AcceptedRules :
                 /\ DictGet(Rec, "constituency_name") = Candidate(k)
                 /\ \A j \in Matching("constituency_name") : j < k => ~Acceptable(Candidate(j))

\* a rule gave a candidate of exactly 3 characters, which was passed over, and
\* a later rule gave the name
C3_Witness ==
    /\ Called
    /\ \E j \in Matching("constituency_name") :
          /\ Len(Candidate(j)) = 3
          /\ \E k \in AcceptedRules : k > j /\ DictGet(Rec, "constituency_name") = Candidate(k)

(***************************************************************************)
(* C4: each numeric field holds digits only: the span of digits and commas   *)
(* the rule matched, with the commas removed and the digits in their order.  *)
(***************************************************************************)
C4_DigitsOnly ==
    Called =>
        \A fld \in NumericFields :
           /\ \A k \in DOMAIN DictGet(Rec, fld) : DictGet(Rec, fld)[k] \in Digits
           /\ Matching(fld) # {} =>
                 /\ \A k \in DOMAIN Span(fld, FirstOf(Matching(fld))) :
                       Span(fld, FirstOf(Matching(fld)))[k] \in Digits \cup {","}
                 /\ DictGet(Rec, fld) = DigitsOf(Span(fld, FirstOf(Matching(fld))))

\* the span 4,5 was matched and the field is 45
C4_Witness ==
    /\ Called
    /\ 1 \in Matching("total_electors")
    /\ Span("total_electors", 1) = <<"4", ",", "5">>
    /\ DictGet(Rec, "total_electors") = <<"4", "5">>

(***************************************************************************)
(* C5: the record has exactly the keys filename, constituency_name,          *)
(* total_electors, valid_votes_polled, nota_votes, in this order; a field    *)
(* no rule gives an accepted match for is the empty string; a text without   *)
(* any label gives four empty fields.                                        *)
(***************************************************************************)
C5_FiveFields ==
    Called =>
        /\ DictKeys(Rec) = <<"filename", "constituency_name", "total_electors",
                             "valid_votes_polled", "nota_votes">>
        /\ DictGet(Rec, "filename") = call.filename
        /\ AcceptedRules = {} => DictGet(Rec, "constituency_name") = <<>>
        /\ \A fld \in NumericFields : Matching(fld) = {} => DictGet(Rec, fld) = <<>>

\* a text that is not empty and that no rule of any field matches
C5_Witness ==
    /\ Called
    /\ doc_text # <<>>
    /\ Matching("constituency_name") = {}
    /\ \A fld \in NumericFields : Matching(fld) = {}
    /\ \A k \in 2..5 : Rec[k][2] = <<>>

(***************************************************************************)
(* C6: with an empty record list (input directory missing, no matching       *)
(* file, no document with text, or an empty list handed to save_to_excel)    *)
(* no output file is created or overwritten, nothing is raised and the run   *)
(* ends normally.                                                            *)
(***************************************************************************)
C6_EmptyNoOutput ==
    (Returned /\ extracted_data = <<>>) =>
        /\ files = files0
        /\ writes = 0
        /\ ~export_error
        /\ exit_code \notin {"exit 1", "raised"}
        /\ pc = "done" => exit_code \in {"exit 0", "returned"}

\* a library caller found no input directory and handed the empty list to
\* save_to_excel, which returned
C6_Witness ==
    /\ pc = "done"
    /\ entry = "library"
    /\ PDF_FOLDER \notin dirs0
    /\ extracted_data = <<>>
    /\ exit_code = "returned"

(***************************************************************************)
(* C7: an error of one document or one field is absorbed; an error of the    *)
(* exporter or of the initialization of the provider, and only such an       *)
(* error, ends main with the error exit.                                     *)
(***************************************************************************)
C7_OnlyExportOrInitEscalate ==
    (entry = "main" /\ pc = "done") =>
        (exit_code = "exit 1" <=> (export_error \/ init_error))

(***************************************************************************)
(* C8: with PROJECT_ID or PROCESSOR_ID absent the parser is constructed      *)
(* without a client and the run goes on; extract_text_from_pdf never calls   *)
(* the service and returns, for every path, the text synthesized from the    *)
(* file name.                                                                *)
(***************************************************************************)
Absent(x) == x \in {None, ""}

C8_SyntheticMode ==
    (Absent(project_id) \/ Absent(processor_id)) =>
        /\ pc \notin {"main", "construct"} => client = None /\ processor_name = NoProcessor
        /\ ~init_error
        /\ service_calls = 0
        /\ \A k \in DOMAIN visited :
              /\ visited[k][2] = mock_pdf_text(PDF_FOLDER \o <<"/">> \o visited[k][1])
              /\ visited[k][2] # <<>>
        /\ exit_code \in {"exit 1", "raised"} => export_error

\* a run with only PROCESSOR_ID absent that went through two documents
C8_Witness ==
    /\ Truthy(project_id) /\ processor_id = None
    /\ pc = "done"
    /\ Len(visited) = 2
    /\ Len(extracted_data) = 2

InputFiles(fs) == {p \in DOMAIN fs : SubSeq(p, 1, Len(PDF_FOLDER) + 1) = PDF_FOLDER \o <<"/">>}

OutputPath == output_folder \o <<"/">> \o OUTPUT_FILE

\* the values of a record, in the order of its keys
RowOf(data) == [j \in DOMAIN data |-> data[j][2]]

C11_WrittenOnceAtEnd ==
    /\ writes <= 1
    /\ writes = 0 => files = files0
    /\ writes = 1 =>
          /\ Returned
          /\ Len(visited) = Len(pdf_files)
          /\ OutputPath \in DOMAIN files
          /\ files[OutputPath].header = <<"Filename", "Constituency Name", "Total Electors",
                                          "Valid Votes Polled", "NOTA Votes">>
          /\ Len(files[OutputPath].rows) = Len(WithText)
          /\ \A k \in DOMAIN extracted_data :
                /\ files[OutputPath].rows[k] = RowOf(extracted_data[k])
                /\ files[OutputPath].rows[k][1] = WithText[k][1]
          /\ \A p \in DOMAIN files : p # OutputPath => (p \in DOMAIN files0 /\ files[p] = files0[p])

\* two documents gave a record each, and the table of two different rows took
\* the place of the file that was at the path
C11_Witness ==
    /\ writes = 1
    /\ pc = "done"
    /\ OutputPath \in DOMAIN files0
    /\ files[OutputPath] # files0[OutputPath]
    /\ Len(files[OutputPath].rows) = 2
    /\ files[OutputPath].rows[1] # files[OutputPath].rows[2]

(***************************************************************************)
(* C12: at the end of the batch the number of documents that gave no text    *)
(* is reported: the matching files minus the records returned.               *)
(***************************************************************************)
\* the numbers main prints when the batch is over
ReportedCounts ==
    IF summary = <<>> THEN {}
    ELSE {summary[1].files_processed, summary[1].successful_extractions}

\* a document was gone through and gave no text
SomeSkipped == \E k \in DOMAIN visited : visited[k][2] = <<>>

\* as claimed, read generously: whenever main has ended normally after a batch
\* with a skipped document, one of the numbers it printed is the number of
\* skipped documents
C12_SkippedCountReported ==
    (entry = "main" /\ pc = "done" /\ exit_code = "exit 0" /\ SomeSkipped) =>
        Len(pdf_files) - Len(extracted_data) \in ReportedCounts

(***************************************************************************)
(* C13: a numeric field is empty only when none of its rules matches the     *)
(* normalized text; when a rule matches, the field holds a digit.            *)
(***************************************************************************)
C13_MatchGivesDigit ==
    Called =>
        \A fld \in NumericFields :
           Matching(fld) # {} => \E k \in DOMAIN DictGet(Rec, fld) : DictGet(Rec, fld)[k] \in Digits
=============================================================================
